---- MODULE Spec2Model ----
(***************************************************************************)
(* Routing and dispatch engine of the multi-LLM chat backend: the keyword  *)
(* classifier, the model selection policy, the call/fallback chain of      *)
(* call_llm, the /chat and /chat/stream handlers and the sessions table.   *)
(*                                                                         *)
(* Strings the code inspects (queries, response texts) are sequences of    *)
(* one-character strings, so that lower(), split(), join() and the         *)
(* substring test are computed, not assumed.  Confidences are in           *)
(* hundredths (0.9 is 90), times in whole seconds of the clock `now`.      *)
(***************************************************************************)
EXTENDS Integers, Sequences, FiniteSets, TLC

\* ------------------------------------------------------------------ bounds

\* The clock runs from 0 to MaxTime seconds.
MaxTime == 1

\* The remote services answer with texts of 0..MaxWords words.
MaxWords == 13

\* Padded queries have up to MaxFill filler words after their first word.
MaxFill == 60

\* ----------------------------------------------------------------- strings

UpperCase ==
    <<"A", "B", "C", "D", "E", "F", "G", "H", "I", "J", "K", "L", "M", "N", "O", "P", "Q", "R", "S", "T", "U", "V", "W", "X", "Y", "Z">>

LowerCase ==
    <<"a", "b", "c", "d", "e", "f", "g", "h", "i", "j", "k", "l", "m", "n", "o", "p", "q", "r", "s", "t", "u", "v", "w", "x", "y", "z">>

\* str.lower(), one character
LowerChar(c) ==
    IF \E k \in 1..Len(UpperCase) : UpperCase[k] = c
    THEN LowerCase[CHOOSE k \in 1..Len(UpperCase) : UpperCase[k] = c]
    ELSE c

\* str.lower()
Lower(s) == [k \in 1..Len(s) |-> LowerChar(s[k])]

\* what str.split() takes for a separator
IsSpace(c) == c \in {" ", "\t", "\n"}

\* `kw in s` of Python: kw occurs in s as a contiguous substring
Contains(s, kw) ==
    \E k \in 0..(Len(s) - Len(kw)) : SubSeq(s, k + 1, k + Len(kw)) = kw

\* any(keyword in s for keyword in keywords)
AnyIn(keywords, s) == \E k \in 1..Len(keywords) : Contains(s, keywords[k])

\* the positions of s where a word begins: a non-blank at the start of s
\* or after a blank
WordStarts(s) ==
    { k \in 1..Len(s) : ~IsSpace(s[k]) /\ (k = 1 \/ IsSpace(s[k - 1])) }

\* the last position of the word of s that begins at k
WordEnd(s, k) ==
    CHOOSE e \in k..Len(s) :
        /\ \A m \in k..e : ~IsSpace(s[m])
        /\ (e = Len(s) \/ IsSpace(s[e + 1]))

\* str.split() with no argument: the maximal runs of non-blanks, in order
Split(s) ==
    LET starts == WordStarts(s) IN
    [j \in 1..Cardinality(starts) |->
        LET k == CHOOSE b \in starts : Cardinality({m \in starts : m <= b}) = j
        IN SubSeq(s, k, WordEnd(s, k))]

RECURSIVE Join(_, _)
\* sep.join(ws)
Join(sep, ws) ==
    IF ws = <<>> THEN <<>>
    ELSE IF Len(ws) = 1 THEN ws[1]
    ELSE ws[1] \o sep \o Join(sep, Tail(ws))

\* words[i:j] of Python (0-based, j exclusive, clipped to the list)
Slice(ws, i, j) ==
    SubSeq(ws, i + 1, IF j < Len(ws) THEN j ELSE Len(ws))

\* n copies of the word w, as a list of words
Repeat(w, n) == [k \in 1..n |-> w]

\* Optional[...] of Python: None, or a value
None == <<>>
Some(x) == <<x>>

\* bool(x) of an Optional[str]: None and "" are false
Truthy(o) == o # None /\ o[1] # ""

\* ---------------------------------------------------------------- classify

code_keywords ==
    << <<"c", "o", "d", "e">>,
       <<"f", "u", "n", "c", "t", "i", "o", "n">>,
       <<"d", "e", "b", "u", "g">>,
       <<"p", "r", "o", "g", "r", "a", "m", "m", "i", "n", "g">>,
       <<"p", "y", "t", "h", "o", "n">>,
       <<"j", "a", "v", "a", "s", "c", "r", "i", "p", "t">>,
       <<"e", "r", "r", "o", "r">>,
       <<"b", "u", "g">>,
       <<"s", "y", "n", "t", "a", "x">>,
       <<"a", "l", "g", "o", "r", "i", "t", "h", "m">>,
       <<"s", "c", "r", "i", "p", "t">>,
       <<"c", "l", "a", "s", "s">>,
       <<"m", "e", "t", "h", "o", "d">> >>

research_keywords ==
    << <<"r", "e", "s", "e", "a", "r", "c", "h">>,
       <<"a", "n", "a", "l", "y", "z", "e">>,
       <<"c", "o", "m", "p", "a", "r", "e">>,
       <<"f", "i", "n", "d">>,
       <<"s", "t", "u", "d", "y">>,
       <<"i", "n", "v", "e", "s", "t", "i", "g", "a", "t", "e">>,
       <<"i", "n", "f", "o", "r", "m", "a", "t", "i", "o", "n">>,
       <<"d", "a", "t", "a">>,
       <<"f", "a", "c", "t", "s">>,
       <<"e", "x", "p", "l", "a", "i", "n">>,
       <<"a", "n", "a", "l", "y", "s", "i", "s">>,
       <<"s", "u", "m", "m", "a", "r", "y">> >>

task_keywords ==
    << <<"h", "o", "w", " ", "t", "o">>,
       <<"s", "t", "e", "p", "s">>,
       <<"g", "u", "i", "d", "e">>,
       <<"t", "u", "t", "o", "r", "i", "a", "l">>,
       <<"h", "e", "l", "p">>,
       <<"p", "r", "o", "c", "e", "s", "s">>,
       <<"i", "n", "s", "t", "r", "u", "c", "t", "i", "o", "n">>,
       <<"w", "a", "l", "k", "t", "h", "r", "o", "u", "g", "h">>,
       <<"p", "r", "o", "c", "e", "d", "u", "r", "e">>,
       <<"s", "e", "t", "u", "p">> >>

\* detect_agent that tests the research keywords before the code keywords
detect_agent_research_first(query) ==
    LET query_lower == Lower(query) IN
    IF AnyIn(research_keywords, query_lower) THEN "research"
    ELSE IF AnyIn(code_keywords, query_lower) THEN "code"
    ELSE IF AnyIn(task_keywords, query_lower) THEN "task"
    ELSE "task"

\* detect_agent(query)
detect_agent(query) ==
    LET query_lower == Lower(query) IN
    IF AnyIn(code_keywords, query_lower) THEN "code"
    ELSE IF AnyIn(research_keywords, query_lower) THEN "research"
    ELSE IF AnyIn(task_keywords, query_lower) THEN "task"
    ELSE "task"

\* choose_model that tests the length of a long query before the category
choose_model_length_first(query, agent) ==
    LET word_count == Len(Split(query)) IN
    IF word_count < 15 THEN "gemini-flash-8b"
    ELSE IF word_count > 50 THEN "zai-large"
    ELSE IF agent = "code" THEN "gemini-flash"
    ELSE "gemini-flash"

\* choose_model(query, agent)
choose_model(query, agent) ==
    LET word_count == Len(Split(query)) IN
    IF word_count < 15 THEN "gemini-flash-8b"
    ELSE IF agent = "code" THEN "gemini-flash"
    ELSE IF word_count > 50 THEN "zai-large"
    ELSE "gemini-flash"

\* ---------------------------------------------------------------- adapters

\* JSON null (Python None) where a number is expected
Null == 0 - 1

\* what a Python call does: it returns a value or raises
Return(v) == [kind |-> "return", value |-> v]
Raise(e) == [kind |-> "raise", exc |-> e]

\* "Gemini error: "
GeminiErrorPrefix ==
    <<"G", "e", "m", "i", "n", "i", " ", "e", "r", "r", "o", "r", ":", " ">>

\* "Z.ai error: "
ZaiErrorPrefix ==
    <<"Z", ".", "a", "i", " ", "e", "r", "r", "o", "r", ":", " ">>

\* str(e) of the exceptions a remote call raises
Errors == { <<"5", "0", "3">> }

\* the k-th word of a remote answer
Word(k) == <<LowerCase[k]>>

\* a text of n words: single blanks between them, or blank and newline
\* between them and around the text
TextOf(n, wide) ==
    LET ws == [k \in 1..n |-> Word(k)] IN
    IF wide THEN <<"\n">> \o Join(<<" ", "\n">>, ws) \o <<" ">>
    ELSE Join(<<" ">>, ws)

\* the texts of 0..n words: those of an even number of words single-spaced,
\* those of an odd number wide, and the text of blanks only
Texts(n) == { TextOf(k, k % 2 = 1) : k \in 0..n } \cup { TextOf(0, TRUE) }

\* total_tokens of the usage object of a Z.ai answer, when it has one
UsageTokens == { 40, Null }

\* what the Gemini service does with a request: an answer text, or an
\* exception of the client library
GeminiReplies(texts) ==
    [ok : {TRUE}, text : texts] \cup [ok : {FALSE}, error : Errors]

\* what the Z.ai service does with a request: a completion whose content is
\* a string, with or without usage accounting, or a failure (connection
\* error, timeout, status >= 400, payload of another shape)
ZaiReplies(texts) ==
    [ok : {TRUE}, content : texts, usage : {None} \cup {Some(u) : u \in UsageTokens}]
        \cup [ok : {FALSE}, error : Errors]

\* the model name call_gemini_flash asks the service for
GeminiModelName(model) ==
    IF model = "gemini-flash-8b" THEN "gemini-1.5-flash-8b" ELSE "gemini-1.5-flash"

\* call_gemini_flash that stops its timer in the except branch too and
\* reports the elapsed time of a failed call
call_gemini_flash_times_failure(reply, start_time, end_time) ==
    IF reply.ok
    THEN Return([response |-> reply.text,
                 confidence |-> 90,
                 processing_time |-> end_time - start_time,
                 token_count |-> Len(Split(reply.text)),
                 success |-> TRUE])
    ELSE Return([response |-> GeminiErrorPrefix \o reply.error,
                 confidence |-> 0,
                 processing_time |-> end_time - start_time,
                 token_count |-> 0,
                 success |-> FALSE])

\* call_gemini_flash(query, model), started at start_time, the service
\* replying `reply` at end_time
call_gemini_flash(reply, start_time, end_time) ==
    IF reply.ok
    THEN Return([response |-> reply.text,
                 confidence |-> 90,
                 processing_time |-> end_time - start_time,
                 token_count |-> Len(Split(reply.text)),
                 success |-> TRUE])
    ELSE Return([response |-> GeminiErrorPrefix \o reply.error,
                 confidence |-> 0,
                 processing_time |-> 0,
                 token_count |-> 0,
                 success |-> FALSE])

\* call_zai_direct without its try/except: a failed remote call raises
call_zai_direct_unguarded(reply, start_time, end_time) ==
    IF reply.ok
    THEN Return([response |-> reply.content,
                 confidence |-> 85,
                 processing_time |-> end_time - start_time,
                 token_count |-> IF reply.usage = None
                                 THEN Len(Split(reply.content))
                                 ELSE reply.usage[1],
                 success |-> TRUE])
    ELSE Raise(reply.error)

\* call_zai_direct(query), started at start_time, the service replying
\* `reply` at end_time
call_zai_direct(reply, start_time, end_time) ==
    IF reply.ok
    THEN Return([response |-> reply.content,
                 confidence |-> 85,
                 processing_time |-> end_time - start_time,
                 token_count |-> IF reply.usage = None
                                 THEN Len(Split(reply.content))
                                 ELSE reply.usage[1],
                 success |-> TRUE])
    ELSE Return([response |-> ZaiErrorPrefix \o reply.error,
                 confidence |-> 0,
                 processing_time |-> 0,
                 token_count |-> 0,
                 success |-> FALSE])

\* ---------------------------------------------------------------- call_llm

agent_prompts(agent) ==
    IF agent = "code"
    THEN "You are a Code Assistant. Provide detailed code analysis and explanations:\n\n"
    ELSE IF agent = "research"
    THEN "You are a Research Assistant. Provide comprehensive analysis and information:\n\n"
    ELSE IF agent = "task"
    THEN "You are a Task Helper. Provide step-by-step guidance:\n\n"
    ELSE ""

\* full_query = agent_prompts.get(agent, "") + query: the prefix and the query
full_query(agent, query) == <<agent_prompts(agent), query>>

\* the steps of call_llm that wait for an adapter
Stages == {"PrimaryCall", "FallbackCall1", "FallbackCall2"}

\* model.startswith("gemini"), over the names choose_model returns
StartsWithGemini(model) == model \in {"gemini-flash-8b", "gemini-flash"}

\* the adapter and model variant call_llm invokes in a stage
AdapterOf(stage, model) ==
    IF stage = "PrimaryCall"
    THEN IF StartsWithGemini(model)
         THEN [fn |-> "call_gemini_flash", model |-> model]
         ELSE IF model = "zai-large"
         THEN [fn |-> "call_zai_direct", model |-> "zai-large"]
         ELSE [fn |-> "call_gemini_flash", model |-> "gemini-flash"]
    ELSE IF stage = "FallbackCall1"
    THEN [fn |-> "call_gemini_flash", model |-> "gemini-flash"]
    ELSE [fn |-> "call_zai_direct", model |-> "zai-large"]

\* a call that has not returned yet
Pending == [pending |-> TRUE]

\* Launch that starts the gemini-flash fallback together with the primary
\* call instead of waiting for the primary call to fail
Launch_concurrent(stage, model, prompt, t) ==
    LET call(s) ==
          [stage |-> s,
           fn |-> AdapterOf(s, model).fn,
           model |-> AdapterOf(s, model).model,
           model_name |-> IF AdapterOf(s, model).fn = "call_gemini_flash"
                          THEN GeminiModelName(AdapterOf(s, model).model)
                          ELSE AdapterOf(s, model).model,
           prompt |-> prompt,
           start_time |-> t,
           outcome |-> Pending]
    IN IF stage = "PrimaryCall"
       THEN <<call("PrimaryCall"), call("FallbackCall1")>>
       ELSE <<call(stage)>>

\* the adapter calls call_llm starts on entering a stage, at time t
Launch(stage, model, prompt, t) ==
    LET a == AdapterOf(stage, model) IN
    << [stage |-> stage,
        fn |-> a.fn,
        model |-> a.model,
        model_name |-> IF a.fn = "call_gemini_flash"
                       THEN GeminiModelName(a.model) ELSE a.model,
        prompt |-> prompt,
        start_time |-> t,
        outcome |-> Pending] >>

\* NextStage that does not look at the primary call's success flag
NextStage_ignores_success(stage, model, result, key) ==
    IF stage = "PrimaryCall"
    THEN IF model # "gemini-flash" THEN "FallbackCall1"
         ELSE IF result.success THEN "Success"
         ELSE IF Truthy(key) THEN "FallbackCall2"
         ELSE "Exhausted"
    ELSE IF stage = "FallbackCall1"
    THEN IF result.success THEN "Success"
         ELSE IF Truthy(key) THEN "FallbackCall2"
         ELSE "Exhausted"
    ELSE IF result.success THEN "Success" ELSE "Exhausted"

\* NextStage without the test `model != "gemini-flash"`
NextStage_no_default_test(stage, model, result, key) ==
    IF stage = "PrimaryCall"
    THEN IF result.success THEN "Success" ELSE "FallbackCall1"
    ELSE IF stage = "FallbackCall1"
    THEN IF result.success THEN "Success"
         ELSE IF Truthy(key) THEN "FallbackCall2"
         ELSE "Exhausted"
    ELSE IF result.success THEN "Success" ELSE "Exhausted"

\* NextStage without the test of Z_API_KEY
NextStage_no_key_test(stage, model, result, key) ==
    IF stage = "PrimaryCall"
    THEN IF result.success THEN "Success"
         ELSE IF model # "gemini-flash" THEN "FallbackCall1"
         ELSE "FallbackCall2"
    ELSE IF stage = "FallbackCall1"
    THEN IF result.success THEN "Success" ELSE "FallbackCall2"
    ELSE IF result.success THEN "Success" ELSE "Exhausted"

\* NextStage that starts the chain again when the last fallback failed
NextStage_retries(stage, model, result, key) ==
    IF stage = "PrimaryCall"
    THEN IF result.success THEN "Success"
         ELSE IF model # "gemini-flash" THEN "FallbackCall1"
         ELSE IF Truthy(key) THEN "FallbackCall2"
         ELSE "Exhausted"
    ELSE IF stage = "FallbackCall1"
    THEN IF result.success THEN "Success"
         ELSE IF Truthy(key) THEN "FallbackCall2"
         ELSE "Exhausted"
    ELSE IF result.success THEN "Success" ELSE "PrimaryCall"

\* where call_llm goes when the adapter of `stage` returned `result`
NextStage(stage, model, result, key) ==
    IF stage = "PrimaryCall"
    THEN IF result.success THEN "Success"
         ELSE IF model # "gemini-flash" THEN "FallbackCall1"
         ELSE IF Truthy(key) THEN "FallbackCall2"
         ELSE "Exhausted"
    ELSE IF stage = "FallbackCall1"
    THEN IF result.success THEN "Success"
         ELSE IF Truthy(key) THEN "FallbackCall2"
         ELSE "Exhausted"
    ELSE IF result.success THEN "Success" ELSE "Exhausted"

\* the adapter of call `c` run against the service's reply
Invoke(c, reply, t) ==
    IF c.fn = "call_gemini_flash"
    THEN call_gemini_flash(reply, c.start_time, t)
    ELSE call_zai_direct(reply, c.start_time, t)

\* --------------------------------------------------------------- database

\* save_session whose insert is committed although the call then fails and
\* returns False
save_session_keeps_row(rows, sid, query, response_data, agent, model, db_ok, t) ==
    IF response_data.token_count # Null
    THEN [ok |-> db_ok,
          rows |-> Append(rows,
                     [id |-> Len(rows) + 1,
                      session_id |-> sid,
                      query |-> query,
                      response |-> response_data.response,
                      agent_used |-> agent,
                      model |-> model,
                      confidence |-> response_data.confidence,
                      processing_time |-> response_data.processing_time,
                      token_count |-> response_data.token_count,
                      timestamp |-> t]),
          raised |-> FALSE]
    ELSE [ok |-> FALSE, rows |-> rows, raised |-> FALSE]

\* save_session whose insert replaces the row that holds the same query, as
\* INSERT OR REPLACE on a table keyed by the query would
save_session_replaces(rows, sid, query, response_data, agent, model, db_ok, t) ==
    IF db_ok /\ response_data.token_count # Null
    THEN [ok |-> TRUE,
          rows |-> Append(SelectSeq(rows, LAMBDA r : r.query # query),
                     [id |-> Len(rows) + 1,
                      session_id |-> sid,
                      query |-> query,
                      response |-> response_data.response,
                      agent_used |-> agent,
                      model |-> model,
                      confidence |-> response_data.confidence,
                      processing_time |-> response_data.processing_time,
                      token_count |-> response_data.token_count,
                      timestamp |-> t]),
          raised |-> FALSE]
    ELSE [ok |-> FALSE, rows |-> rows, raised |-> FALSE]

\* save_session without its try/except: the error of a failed insert
\* propagates to the handler
save_session_unguarded(rows, sid, query, response_data, agent, model, db_ok, t) ==
    IF db_ok /\ response_data.token_count # Null
    THEN [ok |-> TRUE,
          rows |-> Append(rows,
                     [id |-> Len(rows) + 1,
                      session_id |-> sid,
                      query |-> query,
                      response |-> response_data.response,
                      agent_used |-> agent,
                      model |-> model,
                      confidence |-> response_data.confidence,
                      processing_time |-> response_data.processing_time,
                      token_count |-> response_data.token_count,
                      timestamp |-> t]),
          raised |-> FALSE]
    ELSE [ok |-> FALSE, rows |-> rows, raised |-> TRUE]

\* save_session that binds agent and model to each other's column
save_session_swaps(rows, sid, query, response_data, agent, model, db_ok, t) ==
    IF db_ok /\ response_data.token_count # Null
    THEN [ok |-> TRUE,
          rows |-> Append(rows,
                     [id |-> Len(rows) + 1,
                      session_id |-> sid,
                      query |-> query,
                      response |-> response_data.response,
                      agent_used |-> model,
                      model |-> agent,
                      confidence |-> response_data.confidence,
                      processing_time |-> response_data.processing_time,
                      token_count |-> response_data.token_count,
                      timestamp |-> t]),
          raised |-> FALSE]
    ELSE [ok |-> FALSE, rows |-> rows, raised |-> FALSE]

\* save_session that writes over the row of the same session identifier
\* when there is one (an UPDATE), and inserts otherwise
save_session_updates(rows, sid, query, response_data, agent, model, db_ok, t) ==
    LET row(j) == [id |-> j,
                   session_id |-> sid,
                   query |-> query,
                   response |-> response_data.response,
                   agent_used |-> agent,
                   model |-> model,
                   confidence |-> response_data.confidence,
                   processing_time |-> response_data.processing_time,
                   token_count |-> response_data.token_count,
                   timestamp |-> t]
        held == { j \in 1..Len(rows) : rows[j].session_id = sid }
    IN IF db_ok /\ response_data.token_count # Null
       THEN [ok |-> TRUE,
             rows |-> IF held = {} THEN Append(rows, row(Len(rows) + 1))
                      ELSE [j \in 1..Len(rows) |->
                              IF j \in held THEN row(j) ELSE rows[j]],
             raised |-> FALSE]
       ELSE [ok |-> FALSE, rows |-> rows, raised |-> FALSE]

\* DatabaseManager.save_session on the table `rows` at time t; db_ok is
\* whether sqlite carries out the insert and the commit; `raised` is whether
\* an exception leaves the method (its try/except lets none out)
save_session(rows, sid, query, response_data, agent, model, db_ok, t) ==
    IF db_ok /\ response_data.token_count # Null
    THEN [ok |-> TRUE,
          rows |-> Append(rows,
                     [id |-> Len(rows) + 1,
                      session_id |-> sid,
                      query |-> query,
                      response |-> response_data.response,
                      agent_used |-> agent,
                      model |-> model,
                      confidence |-> response_data.confidence,
                      processing_time |-> response_data.processing_time,
                      token_count |-> response_data.token_count,
                      timestamp |-> t]),
          raised |-> FALSE]
    ELSE [ok |-> FALSE, rows |-> rows, raised |-> FALSE]

\* the number of rows a SELECT ... LIMIT limit gives out of `count` matching
\* ones: a negative LIMIT is no limit in SQLite
Limited(count, limit) ==
    IF limit < 0 THEN count ELSE IF limit < count THEN limit ELSE count

\* DatabaseManager.get_session_history on the table `rows`: the lists the
\* SELECT can give.  ORDER BY timestamp DESC fixes the order of rows of
\* different timestamps only; rows of one timestamp come in any order.
get_session_history(rows, sid, limit, db_ok) ==
    IF ~db_ok THEN { <<>> }
    ELSE
    LET matching == { rows[j] : j \in { k \in 1..Len(rows) : rows[k].session_id = sid } }
        n == Limited(Cardinality(matching), limit)
    IN { r \in [1..n -> matching] :
           /\ \A a, b \in 1..n : a < b =>
                 r[a] # r[b] /\ r[a].timestamp >= r[b].timestamp
           /\ \A x \in matching :
                 (\A a \in 1..n : r[a] # x) =>
                     \A a \in 1..n : r[a].timestamp >= x.timestamp }

\* the methods class DatabaseManager defines
DatabaseManagerMethods ==
    {"setup_database", "get_connection", "save_session", "get_session_history",
     "get_recent_sessions", "get_model_stats", "get_agent_stats",
     "clear_all_sessions", "count_sessions"}

\* db_manager.<name>: the attribute lookup of a method call on the instance
Lookup(name) ==
    IF name \in DatabaseManagerMethods
    THEN Return(name) ELSE Raise("AttributeError")

\* the file sessions.db: whether it exists, and the rows of its sessions
\* table
DbFile(rows) == [exists |-> TRUE, rows |-> rows]
NoFile == [exists |-> FALSE, rows |-> <<>>]

\* sqlite3.connect and CREATE TABLE sessions on the file: connect creates a
\* missing file, CREATE TABLE fails when the table is there already
create_table(file) ==
    IF file.exists THEN Raise("OperationalError") ELSE Return(DbFile(<<>>))

\* setup_database that keeps the file it finds and creates the table only
\* in a new file, as CREATE TABLE IF NOT EXISTS would
setup_database_keeps(file) ==
    IF file.exists THEN Return(file) ELSE create_table(file)

\* DatabaseManager.setup_database: remove sessions.db when it exists, then
\* create the file and its table
setup_database(file) ==
    create_table(IF file.exists THEN NoFile ELSE file)

\* ------------------------------------------------------------------ inputs

\* the dispatches (requests) of a run
Dispatches == {1, 2}

Filler == <<"x">>

\* "What is 2+2?": 4 words, no keyword
QShort == <<"W", "h", "a", "t", " ", "i", "s", " ", "2", "+", "2", "?">>

\* "Debug x ... x": 15 words, a code keyword
QCode == Join(<<" ">>, <<<<"D", "e", "b", "u", "g">>>> \o Repeat(Filler, 14))

\* "Research x ... x": 51 words, a research keyword
QLong == Join(<<" ">>, <<<<"R", "e", "s", "e", "a", "r", "c", "h">>>> \o Repeat(Filler, 50))

Queries == {QShort, QCode, QLong}

\* request.session_id: absent, or given by the caller
SessionIds == {None, Some(""), Some("s1")}

\* -------------------------------------------------------------------- state

VARIABLES
    Z_API_KEY,   \* os.getenv("Z_API_KEY"), read once at import
    remote,      \* the texts the remote services answer with in this run
    clients,     \* the dispatches whose request arrives in this run
    now,         \* the clock, in seconds
    sessions,    \* the rows of the sessions table, in rowid order
    pc,          \* where each dispatch is
    request,     \* its ChatRequest and endpoint
    session_id,  \* locals of the handler
    agent,
    model,
    result,
    words,
    i,
    calls,       \* the adapter calls of the dispatch, in the order started
    saved,       \* what its save_session calls returned
    sent,        \* what the caller received: the response, or the events
    answer       \* the latest answer of a /sessions endpoint

env == <<Z_API_KEY, remote, clients>>
locals == <<session_id, agent, model, result, words, i>>
vars == <<Z_API_KEY, remote, clients, now, sessions, pc, request, session_id,
          agent, model, result, words, i, calls, saved, sent, answer>>

\* no request has arrived
NoRequest == [endpoint |-> "none", query |-> <<>>, session_id |-> None]

\* a name (agent, model) that is not bound yet
Unbound == "unbound"

\* a result that is not bound yet
NoResult == [unbound |-> TRUE]

\* no /sessions endpoint has answered yet
NoAnswer ==
    [op |-> "none", session_id |-> <<>>, n |-> 0, status |-> 0, body |-> <<>>]

\* the process after import: the key read, an empty table, no request yet;
\* one client, remote answers of every length up to MaxWords
Init ==
    /\ Z_API_KEY \in {None, Some(""), Some("zk")}
    /\ now = 0
    /\ sessions = <<>>
    /\ pc = [d \in Dispatches |-> "idle"]
    /\ request = [d \in Dispatches |-> NoRequest]
    /\ session_id = [d \in Dispatches |-> <<>>]
    /\ agent = [d \in Dispatches |-> Unbound]
    /\ model = [d \in Dispatches |-> Unbound]
    /\ result = [d \in Dispatches |-> NoResult]
    /\ words = [d \in Dispatches |-> <<>>]
    /\ i = [d \in Dispatches |-> 0]
    /\ calls = [d \in Dispatches |-> <<>>]
    /\ saved = [d \in Dispatches |-> <<>>]
    /\ sent = [d \in Dispatches |-> <<>>]
    /\ answer = NoAnswer
    /\ remote = Texts(MaxWords)
    /\ clients = {1}

\* the process after import in a run with the given values of the key, the
\* given answer texts and the given clients
InitWith(keys, texts, who) ==
    /\ Z_API_KEY \in keys
    /\ now = 0
    /\ sessions = <<>>
    /\ pc = [d \in Dispatches |-> "idle"]
    /\ request = [d \in Dispatches |-> NoRequest]
    /\ session_id = [d \in Dispatches |-> <<>>]
    /\ agent = [d \in Dispatches |-> Unbound]
    /\ model = [d \in Dispatches |-> Unbound]
    /\ result = [d \in Dispatches |-> NoResult]
    /\ words = [d \in Dispatches |-> <<>>]
    /\ i = [d \in Dispatches |-> 0]
    /\ calls = [d \in Dispatches |-> <<>>]
    /\ saved = [d \in Dispatches |-> <<>>]
    /\ sent = [d \in Dispatches |-> <<>>]
    /\ answer = NoAnswer
    /\ remote = texts
    /\ clients = who

\* ------------------------------------------------------------------ actions

\* the dispatch is inside call_gemini_flash: generate_content is a blocking
\* call made on the event loop, which runs nothing else until it returns
Blocking(d) ==
    \E k \in 1..Len(calls[d]) :
        calls[d][k].outcome = Pending /\ calls[d][k].fn = "call_gemini_flash"

\* the event loop is free to run a step of dispatch d
Runnable(d) == \A e \in Dispatches \ {d} : ~Blocking(e)

\* the event loop is free to run a handler that is no dispatch
LoopFree == \A e \in Dispatches : ~Blocking(e)

\* one second passes
Tick ==
    /\ now < MaxTime
    /\ now' = now + 1
    /\ UNCHANGED <<env, answer, sessions, pc, request, locals, calls, saved, sent>>

\* session_id = request.session_id or f"sess_{int(time.time())}_{uuid}"
NewSessionId(sid, t, uuid) ==
    IF Truthy(sid) THEN <<sid[1]>> ELSE <<"sess", t, uuid>>

\* POST /chat: chat_endpoint up to the primary adapter call
ChatRequest(d, q, sid) ==
    /\ pc[d] = "idle"
    /\ Runnable(d)
    /\ d \in clients
    /\ request' = [request EXCEPT ![d] =
                     [endpoint |-> "chat", query |-> q, session_id |-> sid]]
    /\ session_id' = [session_id EXCEPT ![d] = NewSessionId(sid, now, d)]
    /\ agent' = [agent EXCEPT ![d] = detect_agent(q)]
    /\ model' = [model EXCEPT ![d] = choose_model(q, detect_agent(q))]
    /\ calls' = [calls EXCEPT ![d] =
                   Launch("PrimaryCall", choose_model(q, detect_agent(q)),
                          full_query(detect_agent(q), q), now)]
    /\ pc' = [pc EXCEPT ![d] = "PrimaryCall"]
    /\ UNCHANGED <<env, answer, now, sessions, result, words, i, saved, sent>>

\* POST /chat/stream: stream_chat and generate_stream up to its first yield
StreamRequest(d, q, sid) ==
    /\ pc[d] = "idle"
    /\ Runnable(d)
    /\ d \in clients
    /\ request' = [request EXCEPT ![d] =
                     [endpoint |-> "stream", query |-> q, session_id |-> sid]]
    /\ session_id' = [session_id EXCEPT ![d] = NewSessionId(sid, now, d)]
    /\ sent' = [sent EXCEPT ![d] =
                  <<[event |-> "start", agent |-> detect_agent(q)]>>]
    /\ pc' = [pc EXCEPT ![d] = "yield_start"]
    /\ UNCHANGED <<env, answer, now, sessions, agent, model, result, words, i, calls, saved>>

\* generate_stream from the start event to the primary adapter call
StreamCall(d) ==
    /\ pc[d] = "yield_start"
    /\ Runnable(d)
    /\ LET q == request[d].query IN
       /\ agent' = [agent EXCEPT ![d] = detect_agent(q)]
       /\ model' = [model EXCEPT ![d] = choose_model(q, detect_agent(q))]
       /\ calls' = [calls EXCEPT ![d] =
                      Launch("PrimaryCall", choose_model(q, detect_agent(q)),
                             full_query(detect_agent(q), q), now)]
    /\ pc' = [pc EXCEPT ![d] = "PrimaryCall"]
    /\ UNCHANGED <<env, answer, now, sessions, request, session_id, result, words, i,
                   saved, sent>>

\* the replies the service behind call c can give
Replies(c) ==
    IF c.fn = "call_gemini_flash" THEN GeminiReplies(remote) ELSE ZaiReplies(remote)

\* AdapterReturn that keeps the CallResult in one place shared by all
\* dispatches, as a module-level variable would be
AdapterReturn_shared(d) ==
    /\ pc[d] \in Stages
    /\ Runnable(d)
    /\ \E k \in 1..Len(calls[d]) :
         /\ calls[d][k].outcome = Pending
         /\ \E reply \in Replies(calls[d][k]) :
              LET out == Invoke(calls[d][k], reply, now)
                  done == [calls[d] EXCEPT ![k].outcome = out]
                  next == IF out.kind = "raise" THEN "Raised"
                          ELSE NextStage(pc[d], model[d], out.value, Z_API_KEY)
              IN /\ result' = [e \in Dispatches |->
                                 IF out.kind = "raise" THEN result[e] ELSE out.value]
                 /\ calls' = [calls EXCEPT ![d] =
                                IF next \in Stages
                                THEN done \o Launch(next, model[d],
                                                    full_query(agent[d], request[d].query), now)
                                ELSE done]
                 /\ pc' = [pc EXCEPT ![d] = next]
    /\ UNCHANGED <<env, answer, now, sessions, request, session_id, agent, model,
                   words, i, saved, sent>>

\* AdapterReturn that keeps the CallResult of the first adapter call that
\* returned one, instead of the CallResult call_llm ends with
AdapterReturn_first_result(d) ==
    /\ pc[d] \in Stages
    /\ Runnable(d)
    /\ \E k \in 1..Len(calls[d]) :
         /\ calls[d][k].outcome = Pending
         /\ \E reply \in Replies(calls[d][k]) :
              LET out == Invoke(calls[d][k], reply, now)
                  done == [calls[d] EXCEPT ![k].outcome = out]
                  next == IF out.kind = "raise" THEN "Raised"
                          ELSE NextStage(pc[d], model[d], out.value, Z_API_KEY)
              IN /\ result' = [result EXCEPT ![d] =
                                 IF out.kind = "raise" \/ result[d] # NoResult
                                 THEN result[d] ELSE out.value]
                 /\ calls' = [calls EXCEPT ![d] =
                                IF next \in Stages
                                THEN done \o Launch(next, model[d],
                                                    full_query(agent[d], request[d].query), now)
                                ELSE done]
                 /\ pc' = [pc EXCEPT ![d] = next]
    /\ UNCHANGED <<env, answer, now, sessions, request, session_id, agent, model,
                   words, i, saved, sent>>

\* call_llm: the adapter call in flight returns, and call_llm goes on to its
\* next adapter call or returns
AdapterReturn(d) ==
    /\ pc[d] \in Stages
    /\ Runnable(d)
    /\ \E k \in 1..Len(calls[d]) :
         /\ calls[d][k].outcome = Pending
         /\ \E reply \in Replies(calls[d][k]) :
              LET out == Invoke(calls[d][k], reply, now)
                  done == [calls[d] EXCEPT ![k].outcome = out]
                  next == IF out.kind = "raise" THEN "Raised"
                          ELSE NextStage(pc[d], model[d], out.value, Z_API_KEY)
              IN /\ result' = [result EXCEPT ![d] =
                                 IF out.kind = "raise" THEN result[d] ELSE out.value]
                 /\ calls' = [calls EXCEPT ![d] =
                                IF next \in Stages
                                THEN done \o Launch(next, model[d],
                                                    full_query(agent[d], request[d].query), now)
                                ELSE done]
                 /\ pc' = [pc EXCEPT ![d] = next]
    /\ UNCHANGED <<env, answer, now, sessions, request, session_id, agent, model,
                   words, i, saved, sent>>

\* ChatResponse(...): the body of the answer, or the 500 of a value that
\* does not validate
ChatResponse(a, r, m) ==
    IF r.token_count = Null
    THEN [status |-> 500]
    ELSE [status |-> 200,
          agent_used |-> a,
          response |-> r.response,
          model |-> m,
          confidence |-> r.confidence,
          processing_time |-> r.processing_time,
          token_count |-> r.token_count]

\* chat_endpoint after call_llm: save the session, answer
ChatFinish(d) ==
    /\ pc[d] \in {"Success", "Exhausted", "Raised"}
    /\ Runnable(d)
    /\ request[d].endpoint = "chat"
    /\ IF pc[d] = "Raised"
       THEN /\ sent' = [sent EXCEPT ![d] = <<[status |-> 500]>>]
            /\ UNCHANGED <<sessions, saved>>
       ELSE \E db_ok \in BOOLEAN :
              LET s == save_session(sessions, session_id[d], request[d].query,
                                    result[d], agent[d], model[d], db_ok, now)
              IN /\ sessions' = s.rows
                 /\ saved' = [saved EXCEPT ![d] = Append(@, s.ok)]
                 /\ sent' = [sent EXCEPT ![d] =
                               IF s.raised THEN <<[status |-> 500]>>
                               ELSE <<ChatResponse(agent[d], result[d], model[d])>>]
    /\ pc' = [pc EXCEPT ![d] = "done"]
    /\ UNCHANGED <<env, answer, now, request, locals, calls>>

\* Emit whose loop test is k <= len(words)
Emit_off_by_one(ws, k, m, r) ==
    IF k <= Len(ws)
    THEN [event |-> "delta", content |-> Join(<<" ">>, Slice(ws, k, k + 5))]
    ELSE [event |-> "complete", model |-> m, confidence |-> r.confidence]

\* the head of the chunk loop at index k: the next delta event, or the
\* complete event when the words are used up
Emit(ws, k, m, r) ==
    IF k < Len(ws)
    THEN [event |-> "delta", content |-> Join(<<" ">>, Slice(ws, k, k + 5))]
    ELSE [event |-> "complete", model |-> m, confidence |-> r.confidence]

\* the yield the generator waits in after sending event e
YieldOf(e) == IF e.event = "delta" THEN "yield_delta" ELSE "yield_complete"

\* generate_stream after call_llm: split the response, send the first chunk
StreamChunks(d) ==
    /\ pc[d] \in {"Success", "Exhausted", "Raised"}
    /\ Runnable(d)
    /\ request[d].endpoint = "stream"
    /\ IF pc[d] = "Raised"
       THEN /\ sent' = [sent EXCEPT ![d] = Append(@, [event |-> "error"])]
            /\ pc' = [pc EXCEPT ![d] = "done"]
            /\ UNCHANGED <<words, i>>
       ELSE LET ws == Split(result[d].response)
                e == Emit(ws, 0, model[d], result[d])
            IN /\ words' = [words EXCEPT ![d] = ws]
               /\ i' = [i EXCEPT ![d] = 0]
               /\ sent' = [sent EXCEPT ![d] = Append(@, e)]
               /\ pc' = [pc EXCEPT ![d] = YieldOf(e)]
    /\ UNCHANGED <<env, answer, now, sessions, request, session_id, agent, model,
                   result, calls, saved>>

\* generate_stream after a delta: sleep, step the index, send the next event
StreamNext(d) ==
    /\ pc[d] = "yield_delta"
    /\ Runnable(d)
    /\ LET e == Emit(words[d], i[d] + 5, model[d], result[d])
       IN /\ i' = [i EXCEPT ![d] = @ + 5]
          /\ sent' = [sent EXCEPT ![d] = Append(@, e)]
          /\ pc' = [pc EXCEPT ![d] = YieldOf(e)]
    /\ UNCHANGED <<env, answer, now, sessions, request, session_id, agent, model,
                   result, words, calls, saved>>

\* generate_stream after the complete event: save the session, end
StreamSave(d) ==
    /\ pc[d] = "yield_complete"
    /\ Runnable(d)
    /\ \E db_ok \in BOOLEAN :
         LET s == save_session(sessions, session_id[d], request[d].query,
                               result[d], agent[d], model[d], db_ok, now)
         IN /\ sessions' = s.rows
            /\ saved' = [saved EXCEPT ![d] = Append(@, s.ok)]
            /\ sent' = [sent EXCEPT ![d] =
                          IF s.raised THEN Append(@, [event |-> "error"]) ELSE @]
    /\ pc' = [pc EXCEPT ![d] = "done"]
    /\ UNCHANGED <<env, answer, now, request, locals, calls>>

\* the places where generate_stream is suspended and a cancellation lands
Suspended(d) ==
    \/ pc[d] \in {"yield_start", "yield_delta", "yield_complete"}
    \/ /\ pc[d] \in Stages
       /\ \E k \in 1..Len(calls[d]) :
            calls[d][k].outcome = Pending /\ calls[d][k].fn = "call_zai_direct"

\* the client of a stream goes away: the generator is cancelled where it waits
Disconnect(d) ==
    /\ request[d].endpoint = "stream"
    /\ Suspended(d)
    /\ Runnable(d)
    /\ pc' = [pc EXCEPT ![d] = "cancelled"]
    /\ UNCHANGED <<env, answer, now, sessions, request, locals, calls, saved, sent>>

\* GET /sessions/{session_id}/history?limit=...: get_session_history
SessionHistory(sid, limit) ==
    /\ LoopFree
    /\ \E db_ok \in BOOLEAN :
         \E r \in get_session_history(sessions, sid, limit, db_ok) :
            answer' = [op |-> "history", session_id |-> sid, n |-> limit,
                       status |-> 200, body |-> r]
    /\ UNCHANGED <<env, now, sessions, pc, request, locals, calls, saved, sent>>

\* DELETE /sessions/cleanup?days=...: cleanup_old_sessions, whose call of
\* db_manager.cleanup_old_sessions raises AttributeError, which the server
\* answers with status 500
SessionsCleanup(days) ==
    /\ LoopFree
    /\ LET method == Lookup("cleanup_old_sessions") IN
       CASE method.kind = "raise" ->
            answer' = [op |-> "cleanup", session_id |-> <<>>, n |-> days,
                       status |-> 500, body |-> <<>>]
    /\ UNCHANGED <<env, now, sessions, pc, request, locals, calls, saved, sent>>

\* the process is stopped and started again: the module is imported anew,
\* db_manager = DatabaseManager() runs setup_database on the file the last
\* process left, and no handler of the last process is left; what the
\* client of a /sessions endpoint has received stays with the client
ProcessStart ==
    /\ LET db == setup_database(DbFile(sessions)) IN
       /\ db.kind = "return"
       /\ sessions' = db.value.rows
    /\ pc' = [d \in Dispatches |-> "idle"]
    /\ request' = [d \in Dispatches |-> NoRequest]
    /\ session_id' = [d \in Dispatches |-> <<>>]
    /\ agent' = [d \in Dispatches |-> Unbound]
    /\ model' = [d \in Dispatches |-> Unbound]
    /\ result' = [d \in Dispatches |-> NoResult]
    /\ words' = [d \in Dispatches |-> <<>>]
    /\ i' = [d \in Dispatches |-> 0]
    /\ calls' = [d \in Dispatches |-> <<>>]
    /\ saved' = [d \in Dispatches |-> <<>>]
    /\ sent' = [d \in Dispatches |-> <<>>]
    /\ UNCHANGED <<env, answer, now>>

Next ==
    \/ Tick
    \/ \E d \in Dispatches, q \in Queries, sid \in SessionIds : ChatRequest(d, q, sid)
    \/ \E d \in Dispatches, q \in Queries, sid \in SessionIds : StreamRequest(d, q, sid)
    \/ \E d \in Dispatches : StreamCall(d)
    \/ \E d \in Dispatches : AdapterReturn(d)
    \/ \E d \in Dispatches : ChatFinish(d)
    \/ \E d \in Dispatches : StreamChunks(d)
    \/ \E d \in Dispatches : StreamNext(d)
    \/ \E d \in Dispatches : StreamSave(d)
    \/ \E d \in Dispatches : Disconnect(d)

Spec == Init /\ [][Next]_vars

\* every adapter call returns: the remote call answers, fails or times out
SpecLive == Spec /\ \A d \in Dispatches : WF_vars(AdapterReturn(d))

\* ------------------------------------------- queries for the classifier

\* "How to debug this algorithm?": a task phrase and two code keywords
QDebugAlgorithm ==
    <<"H", "o", "w", " ", "t", "o", " ", "d", "e", "b", "u", "g", " ", "t",
      "h", "i", "s", " ", "a", "l", "g", "o", "r", "i", "t", "h", "m", "?">>

\* "Explain this Python function: def add(a,b): return a+b" (demo.py 49): a
\* research keyword and two code keywords
QDemoCode ==
    <<"E", "x", "p", "l", "a", "i", "n", " ", "t", "h", "i", "s", " ", "P",
      "y", "t", "h", "o", "n", " ", "f", "u", "n", "c", "t", "i", "o", "n",
      ":", " ", "d", "e", "f", " ", "a", "d", "d", "(", "a", ",", "b", ")",
      ":", " ", "r", "e", "t", "u", "r", "n", " ", "a", "+", "b">>

\* "Research the latest AI trends" (demo.py 54): a research keyword
QDemoResearch ==
    <<"R", "e", "s", "e", "a", "r", "c", "h", " ", "t", "h", "e", " ", "l",
      "a", "t", "e", "s", "t", " ", "A", "I", " ", "t", "r", "e", "n", "d",
      "s">>

\* "How to setup Python environment?" (demo.py 59): two task keywords and a
\* code keyword
QDemoTask ==
    <<"H", "o", "w", " ", "t", "o", " ", "s", "e", "t", "u", "p", " ", "P",
      "y", "t", "h", "o", "n", " ", "e", "n", "v", "i", "r", "o", "n", "m",
      "e", "n", "t", "?">>

\* "DEBUG": a code keyword in capitals
QUpper ==
    <<"D", "E", "B", "U", "G">>

\* "ReSeArCh": a research keyword in mixed case
QMixed ==
    <<"R", "e", "S", "e", "A", "r", "C", "h">>

\* "Decode": a code keyword inside a word
QInside ==
    <<"D", "e", "c", "o", "d", "e">>

\* "Find a guide": a research keyword and a task keyword
QResearchTask ==
    <<"F", "i", "n", "d", " ", "a", " ", "g", "u", "i", "d", "e">>

\* "de bug": a code keyword left of a keyword cut by a blank
QSplitKeyword ==
    <<"d", "e", " ", "b", "u", "g">>

\* "debu howto": no keyword (a cut keyword, a task phrase without its blank)
QNearMiss ==
    <<"d", "e", "b", "u", " ", "h", "o", "w", "t", "o">>

\* " \t\n": blanks only
QBlank ==
    <<" ", "\t", "\n">>

\* a query of 1 + k words: `head` and k filler words
Padded(head, k) == Join(<<" ">>, <<head>> \o Repeat(Filler, k))

\* the words padded queries begin with: a code keyword, a research keyword,
\* a task keyword, no keyword
PaddedHeads ==
    { <<"D", "e", "b", "u", "g">>,
      <<"R", "e", "s", "e", "a", "r", "c", "h">>,
      <<"H", "e", "l", "p">>,
      <<"H", "i">> }

\* every keyword as a query of its own
KeywordQueries ==
    { code_keywords[k] : k \in 1..Len(code_keywords) }
        \cup { research_keywords[k] : k \in 1..Len(research_keywords) }
        \cup { task_keywords[k] : k \in 1..Len(task_keywords) }

\* the queries the classifier and the selector are run on: the empty one,
\* phrases, every keyword, and queries of 1..MaxFill + 1 words of each kind
ClassifyQueries ==
    { <<>>, QShort, QDebugAlgorithm, QDemoCode, QDemoResearch, QDemoTask,
      QUpper, QMixed, QInside, QResearchTask, QSplitKeyword, QNearMiss, QBlank }
        \cup KeywordQueries
        \cup { Padded(h, k) : h \in PaddedHeads, k \in 0..MaxFill }

\* the process after import, with one client and no Z.ai key
InitClassify == InitWith({None}, {TextOf(1, TRUE)}, {1})

\* a client sends one of these queries: the handlers up to the primary call
NextClassify ==
    \/ \E d \in Dispatches, q \in ClassifyQueries : ChatRequest(d, q, None)
    \/ \E d \in Dispatches, q \in ClassifyQueries : StreamRequest(d, q, None)
    \/ \E d \in Dispatches : StreamCall(d)

SpecClassify == InitClassify /\ [][NextClassify]_vars

\* ----------------------------------------------- several clients, one store

\* the queries of concurrent clients: a task query for gemini-flash-8b, a
\* code query for gemini-flash
ConcurrentQueries == {QShort, QCode}

\* the session identifiers concurrent clients supply
ConcurrentSessionIds == {Some("s1"), Some("s2")}

\* the session identifiers whose history is asked for
HistoryIds == {<<"s1">>, <<"s2">>}

\* the limits history is asked with: none given (the default), one, negative
Limits == {10, 1, 0 - 1}

\* the ages the retention sweep is asked with: the default, zero
Days == {30, 0}

\* the process after import, with two clients and two answer texts
InitConcurrent ==
    InitWith({None, Some("zk")}, {TextOf(1, TRUE), TextOf(2, FALSE)}, Dispatches)

NextConcurrent ==
    \/ \E d \in Dispatches, q \in ConcurrentQueries, sid \in ConcurrentSessionIds :
         ChatRequest(d, q, sid)
    \/ \E d \in Dispatches, q \in ConcurrentQueries, sid \in ConcurrentSessionIds :
         StreamRequest(d, q, sid)
    \/ \E d \in Dispatches : StreamCall(d)
    \/ \E d \in Dispatches : AdapterReturn(d)
    \/ \E d \in Dispatches : ChatFinish(d)
    \/ \E d \in Dispatches : StreamChunks(d)
    \/ \E d \in Dispatches : StreamNext(d)
    \/ \E d \in Dispatches : StreamSave(d)
    \/ \E d \in Dispatches : Disconnect(d)

SpecConcurrent == InitConcurrent /\ [][NextConcurrent]_vars

\* clients of /chat, and the /sessions endpoints
NextStore ==
    \/ Tick
    \/ \E d \in Dispatches, sid \in ConcurrentSessionIds : ChatRequest(d, QShort, sid)
    \/ \E d \in Dispatches : AdapterReturn(d)
    \/ \E d \in Dispatches : ChatFinish(d)
    \/ \E sid \in HistoryIds, limit \in Limits : SessionHistory(sid, limit)
    \/ \E days \in Days : SessionsCleanup(days)

\* the process after import, with two clients, one answer text and no
\* Z.ai key
InitStore == InitWith({None}, {TextOf(1, TRUE)}, Dispatches)

SpecStore == InitStore /\ [][NextStore]_vars

\* clients of /chat and of the history endpoint, and restarts of the
\* process
NextRestart ==
    \/ \E d \in Dispatches, sid \in ConcurrentSessionIds : ChatRequest(d, QShort, sid)
    \/ \E d \in Dispatches : AdapterReturn(d)
    \/ \E d \in Dispatches : ChatFinish(d)
    \/ \E sid \in HistoryIds, limit \in Limits : SessionHistory(sid, limit)
    \/ ProcessStart

SpecRestart == InitStore /\ [][NextRestart]_vars

\* ------------------------------------------------------------------ claims

\* the adapter call c has returned
Returned(c) == c.outcome # Pending

\* the adapter call c returned a CallResult with success = false
Failed(c) ==
    Returned(c) /\ c.outcome.kind = "return" /\ ~c.outcome.value.success

\* the adapter call c returned a CallResult with success = true
Succeeded(c) ==
    Returned(c) /\ c.outcome.kind = "return" /\ c.outcome.value.success

\* the last adapter call of dispatch d
LastCall(d) == calls[d][Len(calls[d])]

\* call_llm of dispatch d has returned to its handler
CallLlmReturned(d) ==
    /\ Len(calls[d]) > 0
    /\ pc[d] \notin Stages \cup {"Raised"}
    /\ \A k \in 1..Len(calls[d]) : Returned(calls[d][k])

\* every adapter call of dispatch d has failed
AllFailed(d) == \A k \in 1..Len(calls[d]) : Failed(calls[d][k])

\* a message that tells the caller the model used: the /chat response, the
\* complete event of a stream
BearsModel(m) ==
    \/ "status" \in DOMAIN m /\ m.status = 200
    \/ "event" \in DOMAIN m /\ m.event = "complete"

\* the models dispatch d has named to its caller
ModelsShown(d) ==
    { sent[d][k].model : k \in { j \in 1..Len(sent[d]) : BearsModel(sent[d][j]) } }

\* the number of records dispatch d has appended
Appended(d) == Cardinality({ k \in 1..Len(saved[d]) : saved[d][k] })

RECURSIVE SumOver(_, _)
SumOver(f, S) ==
    IF S = {} THEN 0
    ELSE LET x == CHOOSE y \in S : TRUE IN f[x] + SumOver(f, S \ {x})

\* a row of the table that holds what dispatch d handed to save_session
RowOf(d, r) ==
    /\ r.session_id = session_id[d]
    /\ r.query = request[d].query
    /\ r.agent_used = agent[d]
    /\ r.response = result[d].response
    /\ r.confidence = result[d].confidence
    /\ r.processing_time = result[d].processing_time
    /\ r.token_count = result[d].token_count

\* the primary call of d failed and its gemini-flash fallback succeeded
FallbackSucceeded(d) ==
    /\ Len(calls[d]) = 2
    /\ Failed(calls[d][1])
    /\ calls[d][2].stage = "FallbackCall1"
    /\ Succeeded(calls[d][2])

\* C1: when the primary adapter fails and the gemini-flash fallback then
\* succeeds, the CallResult returned has success = true and the model the
\* caller is told (the model of the /chat response, of the complete event)
\* is gemini-flash, not the model first selected.
C1_FallbackModelShown ==
    \A d \in Dispatches :
        FallbackSucceeded(d) =>
            /\ result[d].success
            /\ \A m \in ModelsShown(d) : m = "gemini-flash"

\* C2: the model field of every SessionRecord names the model whose adapter
\* produced the recorded CallResult: the one that succeeded in the end, or
\* the last one tried when all failed.
C2_RecordNamesProducer ==
    \A d \in Dispatches :
        Appended(d) > 0 =>
            \E j \in 1..Len(sessions) :
                RowOf(d, sessions[j]) /\ sessions[j].model = LastCall(d).model

\* C3 as stated: every dispatch that has run to its end has produced exactly
\* one SessionRecord, whatever its adapters did; when all adapters failed the
\* record carries the last failed attempt's CallResult.
C3_ExactlyOneRecord ==
    \A d \in Dispatches :
        pc[d] = "done" =>
            /\ Appended(d) = 1
            /\ Len(sessions) = SumOver([e \in Dispatches |-> Appended(e)], Dispatches)
            /\ AllFailed(d) =>
                 \E j \in 1..Len(sessions) :
                     /\ RowOf(d, sessions[j])
                     /\ sessions[j].response = LastCall(d).outcome.value.response

\* C3, amended: every dispatch that runs to its end calls save_session
\* exactly once and no dispatch calls it twice; the table gains exactly one
\* record for a dispatch whose save_session call succeeds and none for one
\* whose call fails or is never reached; the record holds the fields of the
\* CallResult call_llm returned, the last failed attempt's when all failed.
C3_OneRecordPerSave ==
    /\ Len(sessions) = SumOver([e \in Dispatches |-> Appended(e)], Dispatches)
    /\ \A d \in Dispatches :
        /\ Len(saved[d]) <= 1
        /\ pc[d] = "done" => Len(saved[d]) = 1
        /\ Appended(d) = 1 =>
             /\ CallLlmReturned(d)
             /\ \E j \in 1..Len(sessions) :
                    /\ RowOf(d, sessions[j])
                    /\ sessions[j].response = LastCall(d).outcome.value.response
                    /\ sessions[j].confidence = LastCall(d).outcome.value.confidence
                    /\ sessions[j].id = j

\* C3 witness: a dispatch whose three adapter calls all failed has ended and
\* left its one record.
C3_Witness ==
    \E d \in Dispatches :
        /\ pc[d] = "done"
        /\ Len(calls[d]) = 3
        /\ AllFailed(d)
        /\ saved[d] = <<TRUE>>
        /\ Len(sessions) = 1
        /\ sessions[1].confidence = 0

\* C4: call_llm never raises: whatever the selected model, the credential
\* and the adapters' outcomes it returns a CallResult, the last attempt's;
\* when every adapter tried failed that result has success = false and
\* confidence 0.0.
C4_CallLlmNeverRaises ==
    \A d \in Dispatches :
        /\ pc[d] # "Raised"
        /\ \A k \in 1..Len(calls[d]) :
             Returned(calls[d][k]) => calls[d][k].outcome.kind = "return"
        /\ CallLlmReturned(d) => result[d] = LastCall(d).outcome.value
        /\ (CallLlmReturned(d) /\ AllFailed(d)) =>
             /\ ~result[d].success
             /\ result[d].confidence = 0

\* C4 witness: call_llm has returned after its primary, its gemini-flash
\* fallback and its Z.ai fallback all failed.
C4_Witness ==
    \E d \in Dispatches :
        /\ CallLlmReturned(d)
        /\ Len(calls[d]) = 3
        /\ AllFailed(d)
        /\ LastCall(d).fn = "call_zai_direct"
        /\ pc[d] = "Exhausted"

\* C5: when the adapter of the selected model reports success, call_llm
\* returns that adapter's CallResult unchanged and invokes no other adapter.
C5_PrimarySuccessReturned ==
    \A d \in Dispatches :
        (Len(calls[d]) >= 1 /\ Succeeded(calls[d][1])) =>
            /\ Len(calls[d]) = 1
            /\ pc[d] \notin Stages
            /\ result[d] = calls[d][1].outcome.value

\* C5 witness: a dispatch whose primary call succeeded has answered.
C5_Witness ==
    \E d \in Dispatches :
        /\ Len(calls[d]) = 1
        /\ Succeeded(calls[d][1])
        /\ pc[d] = "done"
        /\ ModelsShown(d) # {}

\* the gemini-flash adapter was invoked as a fallback in dispatch d
GeminiFallback(d) ==
    \E k \in 2..Len(calls[d]) : calls[d][k].fn = "call_gemini_flash"

\* C6: within a dispatch the gemini-flash adapter is invoked as a fallback
\* if and only if the primary call failed and the selected model is not
\* gemini-flash; when gemini-flash was selected the chain goes from the
\* failed primary call straight to the secondary-provider step.
C6_GeminiFallbackIff ==
    \A d \in Dispatches :
        (Len(calls[d]) >= 1 /\ Returned(calls[d][1])) =>
            /\ GeminiFallback(d) <=>
                 (Failed(calls[d][1]) /\ model[d] # "gemini-flash")
            /\ GeminiFallback(d) =>
                 /\ calls[d][2].fn = "call_gemini_flash"
                 /\ calls[d][2].model_name = "gemini-1.5-flash"
                 /\ \A k \in 3..Len(calls[d]) : calls[d][k].fn # "call_gemini_flash"
            /\ (Failed(calls[d][1]) /\ model[d] = "gemini-flash") =>
                 IF Truthy(Z_API_KEY)
                 THEN Len(calls[d]) = 2 /\ calls[d][2].fn = "call_zai_direct"
                 ELSE Len(calls[d]) = 1 /\ pc[d] \notin Stages

\* C6 witness: gemini-flash-8b was selected, its call failed and the
\* gemini-flash fallback is in flight.
C6_Witness ==
    \E d \in Dispatches :
        /\ Len(calls[d]) = 2
        /\ model[d] = "gemini-flash-8b"
        /\ Failed(calls[d][1])
        /\ calls[d][2].model_name = "gemini-1.5-flash"
        /\ ~Returned(calls[d][2])

\* the Z.ai adapter was invoked as a fallback in dispatch d
ZaiFallback(d) ==
    \E k \in 2..Len(calls[d]) : calls[d][k].fn = "call_zai_direct"

\* every attempt that comes before the secondary-provider step has failed
EarlierFailed(d) ==
    /\ Len(calls[d]) >= 1
    /\ Failed(calls[d][1])
    /\ \/ model[d] = "gemini-flash"
       \/ /\ Len(calls[d]) >= 2
          /\ calls[d][2].fn = "call_gemini_flash"
          /\ Failed(calls[d][2])

\* C7: within a dispatch the Z.ai adapter is invoked as the last-resort
\* fallback if and only if every earlier attempt failed and Z_API_KEY is
\* configured; without the credential the dispatch ends Exhausted with the
\* preceding attempt's failure.
C7_ZaiLastResortIff ==
    \A d \in Dispatches :
        /\ ZaiFallback(d) <=> (EarlierFailed(d) /\ Truthy(Z_API_KEY))
        /\ ZaiFallback(d) =>
             /\ LastCall(d).fn = "call_zai_direct"
             /\ Cardinality({ k \in 2..Len(calls[d]) :
                                calls[d][k].fn = "call_zai_direct" }) = 1
        /\ (EarlierFailed(d) /\ ~Truthy(Z_API_KEY)) =>
             /\ pc[d] \notin Stages
             /\ Failed(LastCall(d))
             /\ result[d] = LastCall(d).outcome.value
             /\ LastCall(d).stage # "FallbackCall2"

\* C7 witness: with the credential set, the Z.ai fallback runs after the
\* primary and the gemini-flash fallback failed.
C7_Witness ==
    \E d \in Dispatches :
        /\ Truthy(Z_API_KEY)
        /\ Len(calls[d]) = 3
        /\ Failed(calls[d][1])
        /\ Failed(calls[d][2])
        /\ calls[d][3].fn = "call_zai_direct"
        /\ pc[d] = "FallbackCall2"

\* the place of a stage in the chain
Rank(stage) ==
    IF stage = "PrimaryCall" THEN 1 ELSE IF stage = "FallbackCall1" THEN 2 ELSE 3

\* a dispatch makes at most three adapter calls, in the order primary,
\* gemini-flash fallback, Z.ai fallback, no stage twice; while call_llm is in
\* a stage exactly that stage's call is awaited
ChainBounded ==
    \A d \in Dispatches :
        LET n == Len(calls[d]) IN
        /\ n <= 3
        /\ n >= 1 => calls[d][1].stage = "PrimaryCall"
        /\ \A k \in 1..(n - 1) :
             /\ Rank(calls[d][k].stage) < Rank(calls[d][k + 1].stage)
             /\ Returned(calls[d][k])
        /\ pc[d] \in Stages =>
             /\ n >= 1
             /\ calls[d][n].stage = pc[d]
             /\ ~Returned(calls[d][n])
        /\ pc[d] \in {"Success", "Exhausted"} =>
             /\ n >= 1
             /\ Returned(calls[d][n])
             /\ (pc[d] = "Success") <=> Succeeded(calls[d][n])

\* C8: provided each adapter call returns, every dispatch whose chain has
\* started ends in Success or Exhausted (or its stream is cancelled while it
\* awaits Z.ai), after at most three adapter calls taken in the order
\* primary, gemini-flash fallback, Z.ai fallback, no stage of the chain twice.
C8_Terminates ==
    /\ []ChainBounded
    /\ \A d \in Dispatches :
         (pc[d] \in Stages) ~> (pc[d] \in {"Success", "Exhausted", "cancelled"})

\* C8 witness: a chain of three calls has ended Exhausted.
C8_Witness ==
    \E d \in Dispatches :
        /\ pc[d] = "Exhausted"
        /\ Len(calls[d]) = 3
        /\ calls[d][2].stage = "FallbackCall1"
        /\ calls[d][3].stage = "FallbackCall2"

\* C9: within a dispatch at most one adapter call is in flight, and each
\* fallback call starts only after the attempt before it has returned a
\* CallResult with success = false.
C9_Sequential ==
    \A d \in Dispatches :
        /\ Cardinality({ k \in 1..Len(calls[d]) : ~Returned(calls[d][k]) }) <= 1
        /\ \A k \in 2..Len(calls[d]) :
             /\ Failed(calls[d][k - 1])
             /\ calls[d][k - 1].start_time <= calls[d][k].start_time

\* C9 witness: a fallback call is in flight after a failed attempt.
C9_Witness ==
    \E d \in Dispatches :
        /\ Len(calls[d]) = 3
        /\ ~Returned(calls[d][3])
        /\ Failed(calls[d][2])

\* the words from..to of ws (1-based), to clipped to the list
WordsOf(ws, from, to) ==
    [k \in 1..((IF to < Len(ws) THEN to ELSE Len(ws)) - from + 1) |-> ws[from + k - 1]]

\* C10: for a final response text of n words the events of /chat/stream
\* are, in order, one start event, ceil(n/5) delta events that carry the
\* words five at a time (the last one the rest), then one terminal event
\* (complete or error), and nothing after it.
C10_StreamEvents ==
    \A d \in Dispatches :
        request[d].endpoint = "stream" =>
            LET ev == sent[d] IN
            /\ Len(ev) >= 1
            /\ ev[1].event = "start"
            /\ Len(ev) >= 2 =>
                 LET ws == Split(result[d].response)
                     n == Len(ws)
                     m == (n + 4) \div 5
                 IN /\ CallLlmReturned(d)
                    /\ Len(ev) <= m + 2
                    /\ \A k \in 2..Len(ev) :
                         IF k <= m + 1
                         THEN /\ ev[k].event = "delta"
                              /\ Split(ev[k].content)
                                   = WordsOf(ws, 5 * (k - 2) + 1, 5 * (k - 1))
                              /\ Len(Split(ev[k].content)) \in 1..5
                              /\ k < m + 1 => Len(Split(ev[k].content)) = 5
                              /\ ev[k].content = Join(<<" ">>, Split(ev[k].content))
                         ELSE ev[k].event \in {"complete", "error"}
                    /\ pc[d] = "done" => Len(ev) = m + 2

\* C10 witness: a stream of a 13-word answer has ended after start, three
\* deltas of 5, 5 and 3 words, and complete.
C10_Witness ==
    \E d \in Dispatches :
        /\ pc[d] = "done"
        /\ request[d].endpoint = "stream"
        /\ Len(Split(result[d].response)) = 13
        /\ Len(sent[d]) = 5
        /\ sent[d][2].content = <<"a", " ", "b", " ", "c", " ", "d", " ", "e">>
        /\ sent[d][3].content = <<"f", " ", "g", " ", "h", " ", "i", " ", "j">>
        /\ sent[d][4].content = <<"k", " ", "l", " ", "m">>
        /\ sent[d][5].event = "complete"

\* dispatch d has run to its end
Done(d) == pc[d] = "done"

\* dispatches d and e ran the same endpoint to its end with the same
\* category, the same selected model and the same CallResult
SameDispatch(d, e) ==
    /\ Done(d) /\ Done(e)
    /\ request[d].endpoint = request[e].endpoint
    /\ agent[d] = agent[e]
    /\ model[d] = model[e]
    /\ result[d] = result[e]

\* the caller of d was sent a failure: status 500, or an error event
SentFailure(d) ==
    \E k \in 1..Len(sent[d]) :
        \/ "status" \in DOMAIN sent[d][k] /\ sent[d][k].status = 500
        \/ "event" \in DOMAIN sent[d][k] /\ sent[d][k].event = "error"

\* C11: a failed append never changes what the caller sees. Two dispatches
\* that differ only in what save_session did are sent the same response or
\* the same events; and a dispatch whose append failed is sent no failure,
\* unless the response itself does not validate (a null token_count).
C11_FailedAppendUnseen ==
    /\ \A d, e \in Dispatches : SameDispatch(d, e) => sent[d] = sent[e]
    /\ \A d \in Dispatches :
         (Done(d) /\ saved[d] = <<FALSE>> /\ SentFailure(d)) =>
             (request[d].endpoint = "chat" /\ result[d].token_count = Null)

\* C11 witness: two /chat dispatches with the same category, model and
\* CallResult have answered, the append of one succeeded and the append of
\* the other failed.
C11_Witness ==
    /\ SameDispatch(1, 2)
    /\ request[1].endpoint = "chat"
    /\ result[1].token_count # Null
    /\ saved[1] = <<TRUE>>
    /\ saved[2] = <<FALSE>>
    /\ sent[1] = sent[2]

\* the fields of a CallResult
CallResultFields ==
    {"response", "confidence", "processing_time", "token_count", "success"}

\* s begins with the text p
StartsWith(s, p) == Len(s) >= Len(p) /\ SubSeq(s, 1, Len(p)) = p

\* v is a failure CallResult as the adapter fn makes it: zero confidence,
\* duration and token count, and a text that says which provider failed
FailureOf(fn, v) ==
    /\ v.confidence = 0
    /\ v.processing_time = 0
    /\ v.token_count = 0
    /\ StartsWith(v.response,
                  IF fn = "call_gemini_flash" THEN GeminiErrorPrefix ELSE ZaiErrorPrefix)

OwnRoute(d) ==
    (request'[d] # request[d] \/ agent'[d] # agent[d] \/ model'[d] # model[d]) =>
        /\ agent'[d] # Unbound => agent'[d] = detect_agent(request'[d].query)
        /\ model'[d] # Unbound =>
               model'[d] = choose_model(request'[d].query, agent'[d])

\* the adapter calls and the CallResult of dispatch d are those its own
\* query, its own model and the outcomes of its own calls determine
OwnChain(d) ==
    /\ Len(calls[d]) > 0 =>
         /\ calls[d][1].stage = "PrimaryCall"
         /\ calls[d][1].model = AdapterOf("PrimaryCall", model[d]).model
    /\ \A k \in 1..Len(calls[d]) :
         calls[d][k].prompt = full_query(agent[d], request[d].query)
    /\ \A k \in 1..(Len(calls[d]) - 1) :
         /\ Returned(calls[d][k])
         /\ calls[d][k + 1].stage =
                NextStage(calls[d][k].stage, model[d],
                          calls[d][k].outcome.value, Z_API_KEY)
    /\ result[d] # NoResult =>
         \E k \in 1..Len(calls[d]) :
            /\ Returned(calls[d][k])
            /\ k = Len(calls[d]) \/ ~Returned(calls[d][k + 1])
            /\ result[d] = calls[d][k].outcome.value

\* every dispatch of the run has run to its end
AllDone == \A d \in clients : Done(d)

\* the rows of the table are in the order of their ids, which count from 1,
\* and of their timestamps
InAppendOrder(rows) ==
    \A j \in 1..Len(rows) :
        /\ rows[j].id = j
        /\ \A k \in 1..Len(rows) : j < k => rows[j].timestamp <= rows[k].timestamp

\* the dispatches whose save_session call succeeded
Savers == { d \in Dispatches : Appended(d) > 0 }

\* the table holds one row for each dispatch of S and no other row, each
\* with the session identifier, query, category and CallResult of its
\* dispatch
OneRowEach(S) ==
    /\ Len(sessions) = Cardinality(S)
    /\ \E f \in [S -> 1..Len(sessions)] :
         /\ \A d, e \in S : d # e => f[d] # f[e]
         /\ \A d \in S : RowOf(d, sessions[f[d]])

\* C13 as stated: once all concurrent dispatches have run to their end, the
\* store holds one record per dispatch.
C13_OneRecordPerDispatch == AllDone => OneRowEach(clients)

\* C13, amended: in every interleaving each dispatch's category, model,
\* fallback steps and CallResult are determined by its own query and its own
\* adapters' outcomes; once all dispatches have run to their end the store
\* holds one record for each dispatch whose save_session call succeeded, with
\* that dispatch's session identifier, query and CallResult; and rows stay
\* in the order of their appends: a step leaves the rows there are in place
\* and adds new ones at the end.
C13_Independent ==
    /\ [][\A d \in Dispatches : OwnRoute(d)]_vars
    /\ [](\A d \in Dispatches : OwnChain(d))
    /\ [](AllDone => OneRowEach(Savers))
    /\ [](InAppendOrder(sessions))
    /\ [][/\ Len(sessions') >= Len(sessions)
          /\ SubSeq(sessions', 1, Len(sessions)) = sessions]_vars

\* C13 witness: two streams with different queries and different
\* CallResults have both run to their end, both appends succeeded, and the
\* record of dispatch 2 was appended before the record of dispatch 1.
C13_Witness ==
    /\ AllDone
    /\ clients = {1, 2}
    /\ request[1].endpoint = "stream" /\ request[2].endpoint = "stream"
    /\ request[1].query # request[2].query
    /\ result[1] # result[2]
    /\ Savers = {1, 2}
    /\ Len(sessions) = 2
    /\ RowOf(2, sessions[1]) /\ RowOf(1, sessions[2])

\* dispatches d and e carry the same query under two different session
\* identifiers, both supplied by the caller
SameQueryTwice(d, e) ==
    /\ d # e
    /\ request[d].endpoint # "none" /\ request[e].endpoint # "none"
    /\ request[d].query = request[e].query
    /\ Truthy(request[d].session_id) /\ Truthy(request[e].session_id)
    /\ request[d].session_id # request[e].session_id

\* the positions of the rows stored under the session identifier of d
RowsOf(d) == { j \in 1..Len(sessions) : sessions[j].session_id = session_id[d] }

\* C14 as stated: the same query issued twice under two caller-supplied
\* session identifiers gets the same category and the same model both times,
\* and once both dispatches have run to their end the store holds two
\* records, one under each session identifier, each with what its own
\* dispatch handed over.
C14_TwoRecords ==
    \A d, e \in Dispatches :
        SameQueryTwice(d, e) =>
            /\ (agent[d] # Unbound /\ agent[e] # Unbound) => agent[d] = agent[e]
            /\ (model[d] # Unbound /\ model[e] # Unbound) => model[d] = model[e]
            /\ (Done(d) /\ Done(e)) =>
                  /\ Len(sessions) = 2
                  /\ \E j \in RowsOf(d) : RowsOf(d) = {j} /\ RowOf(d, sessions[j])
                  /\ \E j \in RowsOf(e) : RowsOf(e) = {j} /\ RowOf(e, sessions[j])

\* C14, amended: the same query issued twice under two caller-supplied
\* session identifiers gets the same category and the same model both times;
\* once both dispatches have run to their end, each of them whose
\* save_session call succeeded has exactly one record under its session
\* identifier, with what that dispatch handed over, whatever the other
\* dispatch stored, and one whose call failed has none.
C14_IndependentRecords ==
    \A d, e \in Dispatches :
        SameQueryTwice(d, e) =>
            /\ (agent[d] # Unbound /\ agent[e] # Unbound) => agent[d] = agent[e]
            /\ (model[d] # Unbound /\ model[e] # Unbound) => model[d] = model[e]
            /\ (Done(d) /\ Done(e)) =>
                  /\ Len(sessions) = Appended(d) + Appended(e)
                  /\ Appended(d) = 0 => RowsOf(d) = {}
                  /\ Appended(d) > 0 =>
                        \E j \in RowsOf(d) : RowsOf(d) = {j} /\ RowOf(d, sessions[j])

\* C14 witness: the same query was sent under "s1" and under "s2", both
\* dispatches have run to their end with different CallResults, and the
\* store holds the record of each.
C14_Witness ==
    /\ SameQueryTwice(1, 2)
    /\ Done(1) /\ Done(2)
    /\ result[1] # result[2]
    /\ Len(sessions) = 2
    /\ \E j, k \in 1..2 :
         /\ j # k
         /\ RowOf(1, sessions[j]) /\ sessions[j].session_id = <<"s1">>
         /\ RowOf(2, sessions[k]) /\ sessions[k].session_id = <<"s2">>

\* the character c is the letter k (a lower-case one) in either case
SameLetter(c, k) ==
    c = k \/ \E n \in 1..Len(LowerCase) : LowerCase[n] = k /\ UpperCase[n] = c

\* the keyword kw stands in q at position a, whatever the case of q's letters
OccursAt(kw, q, a) ==
    /\ a + Len(kw) - 1 <= Len(q)
    /\ \A k \in 1..Len(kw) : SameLetter(q[a + k - 1], kw[k])

\* the lower-cased query holds some keyword of the list
Mentions(q, keywords) ==
    \E n \in DOMAIN keywords : \E a \in 1..Len(q) : OccursAt(keywords[n], q, a)

\* the reference classifier: code before research before task
ReferenceCategory(q) ==
    CASE Mentions(q, code_keywords) -> "code"
      [] ~Mentions(q, code_keywords) /\ Mentions(q, research_keywords) -> "research"
      [] OTHER -> "task"

TokenCount(q) ==
    Cardinality({ k \in 1..Len(q) :
                    /\ q[k] \notin {" ", "\t", "\n"}
                    /\ (k = Len(q) \/ q[k + 1] \in {" ", "\t", "\n"}) })

\* the reference policy, first match wins: fewer than 15 words, the
\* cheapest model; category code, gemini-flash; more than 50 words, the
\* largest model; otherwise gemini-flash
ReferencePolicy(w, category) ==
    CASE w < 15 -> "gemini-flash-8b"
      [] w >= 15 /\ category = "code" -> "gemini-flash"
      [] w >= 15 /\ category # "code" /\ w > 50 -> "zai-large"
      [] OTHER -> "gemini-flash"

Older(r, days, t) == r.timestamp < t - days * 86400

\* C17: the retention sweep completes normally from every state of the
\* store: a step of DELETE /sessions/cleanup with `days` answers with status
\* 200 and the number of deleted records, and leaves in the table exactly
\* the records that are not older than `days` days, unchanged.
C17_RetentionSweep ==
    [][\A days \in Days :
          SessionsCleanup(days) =>
              /\ answer'.status = 200
              /\ sessions' = SelectSeq(sessions, LAMBDA r : ~Older(r, days, now))
              /\ answer'.body = Len(sessions) - Len(sessions')]_vars

\* C18: the answer of get_session_history(session_id, limit), for a limit
\* that is not negative, holds only records of that session identifier, at
\* most `limit` of them, most recent first: a record appended later (a
\* greater id) never stands after one appended earlier, also when both were
\* appended in the same second.
C18_HistoryMostRecentFirst ==
    (answer.op = "history" /\ answer.n >= 0) =>
        /\ \A a \in 1..Len(answer.body) :
              answer.body[a].session_id = answer.session_id
        /\ Len(answer.body) <= answer.n
        /\ \A a, b \in 1..Len(answer.body) :
              a < b => answer.body[a].id > answer.body[b].id

\* C19: the classifier gives each query of the demo the agent the demo
\* expects: code for "Explain this Python function: ...", research for
\* "Research the latest AI trends", task for "How to setup Python
\* environment?".
C19_DemoExpectations ==
    \A d \in Dispatches :
        agent[d] # Unbound =>
            /\ request[d].query = QDemoCode => agent[d] = "code"
            /\ request[d].query = QDemoResearch => agent[d] = "research"
            /\ request[d].query = QDemoTask => agent[d] = "task"

\* the CallResult of the last adapter call of dispatch d
FinalCallResult(d) == calls[d][Len(calls[d])].outcome.value

\* the delta events sent to the client of stream dispatch d so far
Deltas(d) ==
    IF request[d].endpoint = "stream"
    THEN SelectSeq(sent[d], LAMBDA e : e.event = "delta")
    ELSE <<>>

\* the first adapter call of stream dispatch d starts in this step
FirstInvocation(d) ==
    request'[d].endpoint = "stream" /\ calls[d] = <<>> /\ calls'[d] # <<>>

\* every adapter call of d has returned and the last one returned the
\* CallResult the deltas of d are cut from, five words at a time
CutFromFinal(d) ==
    /\ calls[d] # <<>>
    /\ \A k \in 1..Len(calls[d]) : Returned(calls[d][k])
    /\ calls[d][Len(calls[d])].outcome.kind = "return"
    /\ \A k \in 1..Len(Deltas(d)) :
         Deltas(d)[k].content
           = Join(<<" ">>, WordsOf(Split(FinalCallResult(d).response),
                                   5 * (k - 1) + 1, 5 * k))

\* C20: in /chat/stream the start event has been sent before the first
\* adapter call starts; when the first delta event is sent every adapter
\* call of the dispatch (primary and fallbacks) has returned, and none
\* starts afterwards; the delta events carry the words of the response of
\* the one CallResult the last adapter call returned.
C20_StreamAfterCalls ==
    /\ [][\A d \in Dispatches :
            /\ FirstInvocation(d) =>
                 sent[d] # <<>> /\ sent[d][1].event = "start"
            /\ Deltas(d) # <<>> => calls'[d] = calls[d]]_vars
    /\ [](\A d \in Dispatches : Deltas(d) # <<>> => CutFromFinal(d))

\* C20 witness: a stream that needed both fallbacks has sent start, then
\* all its deltas, and has ended.
C20_Witness ==
    \E d \in Dispatches :
        /\ request[d].endpoint = "stream"
        /\ pc[d] = "done"
        /\ Len(calls[d]) = 3
        /\ Failed(calls[d][1]) /\ Failed(calls[d][2])
        /\ FinalCallResult(d).response # calls[d][1].outcome.value.response
        /\ Len(Deltas(d)) >= 2

\* dispatch d has ended: its handler ran to its end, or its stream was
\* cancelled when the consumer went away
Ended(d) == pc[d] \in {"done", "cancelled"}

\* C21: a /chat/stream dispatch whose adapter calls have completed and
\* that has sent a delta event leaves exactly one SessionRecord once it has
\* ended, also when the consumer stopped reading before the end of the
\* stream (a save_session call that fails aside).
C21_RecordDespiteEarlyStop ==
    \A d \in Dispatches :
        ( /\ Deltas(d) # <<>>
          /\ Ended(d)
          /\ CallLlmReturned(d)
          /\ \A k \in 1..Len(saved[d]) : saved[d][k] )
        => /\ Appended(d) = 1
           /\ \E j \in 1..Len(sessions) : RowOf(d, sessions[j])

\* dispatch d calls save_session in this step, and the call returns ok
SaveCall(d, ok) == saved'[d] = Append(saved[d], ok)

\* C22: save_session only appends: a step in which a dispatch's call
\* succeeds adds one new record after the records already held, a step in
\* which it fails adds none, a step without a call leaves the table alone,
\* and in every step each record already in the store keeps its place and
\* all its fields.
C22_AppendOnly ==
    [][/\ \A j \in 1..Len(sessions) :
            j <= Len(sessions') /\ sessions'[j] = sessions[j]
       /\ \A d \in Dispatches :
            /\ SaveCall(d, TRUE) =>
                 /\ Len(sessions') = Len(sessions) + 1
                 /\ RowOf(d, sessions'[Len(sessions')])
                 /\ \A j \in 1..Len(sessions) :
                      sessions[j].id # sessions'[Len(sessions')].id
            /\ SaveCall(d, FALSE) => sessions' = sessions
       /\ saved' = saved => sessions' = sessions]_vars

\* C22 witness: a save_session call has added a second record to a table
\* that held one of the same session identifier and another response.
C22_Witness ==
    /\ Len(sessions) = 2
    /\ sessions[1].session_id = sessions[2].session_id
    /\ sessions[1].response # sessions[2].response
    /\ saved = <<<<TRUE>>, <<TRUE>>>>

Backend(c) == <<c.fn, c.model>>

\* C24: within a dispatch no backend is invoked twice: the adapter calls of
\* a dispatch go to pairwise different backends, whatever model was
\* selected and whether or not the Z.ai key is set.
C24_NoBackendTwice ==
    \A d \in Dispatches :
        \A j, k \in 1..Len(calls[d]) :
            j < k => Backend(calls[d][j]) # Backend(calls[d][k])

\* record r holds the fields of the /chat response m, the query q, and the
\* session identifier the caller gave when it gave a non-empty one
Agrees(r, m, q, sid) ==
    /\ m.status = 200
    /\ r.query = q
    /\ r.agent_used = m.agent_used
    /\ r.model = m.model
    /\ r.response = m.response
    /\ r.confidence = m.confidence
    /\ r.processing_time = m.processing_time
    /\ r.token_count = m.token_count
    /\ Truthy(sid) => r.session_id = <<sid[1]>>

\* C25: a /chat dispatch whose save_session call succeeded has answered
\* its caller, and the record it stored agrees with that response on query,
\* category, model, response text, confidence, processing time and token
\* count, under the caller's session identifier when there is one.
C25_RecordMatchesResponse ==
    \A d \in Dispatches :
        (request[d].endpoint = "chat" /\ Appended(d) > 0) =>
            /\ Len(sent[d]) = 1
            /\ \E j \in 1..Len(sessions) :
                 /\ sessions[j].session_id = session_id[d]
                 /\ Agrees(sessions[j], sent[d][1], request[d].query,
                           request[d].session_id)

\* C25 witness: a /chat dispatch with a caller-supplied session identifier
\* was answered by the gemini-flash fallback and has stored its record.
C25_Witness ==
    \E d \in Dispatches :
        /\ request[d].endpoint = "chat"
        /\ request[d].session_id = Some("s1")
        /\ saved[d] = <<TRUE>>
        /\ FallbackSucceeded(d)
        /\ sent[d][1].status = 200
        /\ sent[d][1].token_count > 0
        /\ sessions[1].session_id = <<"s1">>

====
